---- MODULE Spec2Model ----
(***************************************************************************)
(* The /songs request handler of src/index.js (handleRequest) together     *)
(* with the two collaborators it awaits: the request validator and the     *)
(* record store client.  Each request is one asynchronous task; the task   *)
(* suspends at `await client.send(...)`, the store processes the command,  *)
(* and the task resumes with the store's reply.                            *)
(*                                                                         *)
(* JavaScript values are tagged tuples, so that a string, a number and     *)
(* undefined are distinct values of one comparable kind.  A JavaScript     *)
(* object is a function from Keys to values, an absent property reading as *)
(* undefined.  A JSON document (a request body, a response body) is the    *)
(* set of its key/value pairs.                                             *)
(***************************************************************************)
EXTENDS Integers, Sequences, FiniteSets

\* Number of request tasks the platform runs at the same time.
MaxReqs == 2

Slots == 1..MaxReqs

Titles == {"A", "B"}

JStr(s) == <<"string", s>>

JNum(n) == <<"number", n>>

Undefined == <<"undefined">>

Null == <<"null">>

\* The five attributes of a song record.
Fields == {"title", "artist", "album", "released", "genres"}

FieldOrder == <<"title", "artist", "album", "released", "genres">>

\* Every property name that occurs in a request or response object.
Keys == Fields \cup {"label", "error", "message"}

EmptyObj == [k \in Keys |-> Undefined]

\* JSON.stringify: properties whose value is undefined are left out.
Stringify(obj) == {<<k, obj[k]>> : k \in {x \in Keys : obj[x] # Undefined}}

\* JSON.parse of a well-formed document.
Parse(pairs) ==
  [k \in Keys |->
     IF \E p \in pairs : p[1] = k
       THEN (CHOOSE p \in pairs : p[1] = k)[2]
       ELSE Undefined]

NoResponse == [sent |-> FALSE, status |-> 0, body |-> {}]

\* json(obj, {status}): a response carrying the serialised object.
json(obj, status) == [sent |-> TRUE, status |-> status, body |-> Stringify(obj)]

-----------------------------------------------------------------------------
(* Requests *)

Song1 ==
  {<<"title", JStr("A")>>, <<"artist", JStr("x")>>, <<"album", JStr("c")>>,
   <<"released", JNum(1999)>>, <<"genres", JStr("rock")>>}

\* A second song of the same title, with a property beyond the five.
Song2 ==
  {<<"title", JStr("A")>>, <<"artist", JStr("y")>>, <<"album", JStr("d")>>,
   <<"released", JNum(7)>>, <<"genres", JStr("pop")>>,
   <<"label", JStr("l")>>}

FullBodies == {Song1, Song2}

\* Song1 with one required field left out.
PartialBodies == {{p \in Song1 : p[1] # f} : f \in Fields}

JsonBody(pairs) == [ok |-> TRUE, pairs |-> pairs]

\* A body that is not a JSON document.
BadJson == [ok |-> FALSE, pairs |-> {}]

NoBody == JsonBody({})

Requests ==
  {[method |-> "POST", title |-> Null, body |-> JsonBody(b)] :
      b \in FullBodies \cup PartialBodies}
  \cup {[method |-> "POST", title |-> Null, body |-> BadJson]}
  \cup {[method |-> "GET", title |-> t, body |-> NoBody] :
      t \in {JStr(x) : x \in Titles} \cup {Null}}
  \cup {[method |-> "DELETE", title |-> Null, body |-> NoBody]}

NoRequest == [method |-> "NONE", title |-> Null, body |-> NoBody]

-----------------------------------------------------------------------------
(* The validator, called with the terms of src/index.js lines 37-42 *)

NoError == [status |-> 0, message |-> ""]

MissingFields(body) == {i \in 1..Len(FieldOrder) : body[FieldOrder[i]] = Undefined}

FirstMissing(body) ==
  FieldOrder[CHOOSE i \in MissingFields(body) : \A j \in MissingFields(body) : i <= j]

\* Result of `await validateRequest(request, {GET: {params: ["title"]},
\* POST: {body: [five fields]}})`: an error, a parsed body, or (when the
\* body of a POST is not JSON) a thrown exception.
validateRequest(req) ==
  IF req.method \notin {"GET", "POST"}
    THEN [throws |-> FALSE,
          error |-> [status |-> 405, message |-> "method is not allowed for the URL"],
          body |-> EmptyObj]
  ELSE IF req.method = "GET"
    THEN IF req.title = Null
           THEN [throws |-> FALSE,
                 error |-> [status |-> 400,
                            message |-> "param 'title' is required to process the request"],
                 body |-> EmptyObj]
           ELSE [throws |-> FALSE, error |-> NoError, body |-> EmptyObj]
  ELSE IF ~req.body.ok
    THEN [throws |-> TRUE, error |-> NoError, body |-> EmptyObj]
  ELSE LET requestBody == Parse(req.body.pairs) IN
       IF MissingFields(requestBody) # {}
         THEN [throws |-> FALSE,
               error |-> [status |-> 400,
                          message |-> "field '" \o FirstMissing(requestBody)
                                       \o "' is required in the body"],
               body |-> EmptyObj]
         ELSE [throws |-> FALSE, error |-> NoError, body |-> requestBody]

-----------------------------------------------------------------------------
(* The record store *)

\* An attribute value {S: v} or {N: v}; Missing is an attribute the item
\* does not have.
AttrS(v) == <<"S", v>>

AttrN(v) == <<"N", v>>

Missing == <<"undefined">>

NoItem == [f \in Fields |-> Missing]

Digits == <<"0", "1", "2", "3", "4", "5", "6", "7", "8", "9">>

RECURSIVE Numeral(_)
Numeral(n) == IF n < 10 THEN Digits[n + 1] ELSE Numeral(n \div 10) \o Digits[(n % 10) + 1]

\* The store holds and returns a number attribute as its decimal numeral.
StoreRepr(attr) ==
  IF attr # Missing /\ attr[1] = "N" /\ attr[2] # Undefined /\ attr[2][1] = "number"
    THEN AttrN(JStr(Numeral(attr[2][2])))
    ELSE attr

\* An item of the table written by another client with the key attribute
\* only; the table holds one under title "B" from the start.
KeyOnlyItem(t) == [NoItem EXCEPT !["title"] = AttrS(JStr(t))]

EmptyStore == [t \in Titles |-> NoItem]

\* Acknowledgement codes of a put ($metadata.httpStatusCode).
AckCodes == {200, 503}

NoReply ==
  [kind |-> "none", code |-> 0, Item |-> NoItem, prior |-> {}, existed |-> FALSE]

-----------------------------------------------------------------------------
(* The handler, src/index.js lines 31-125 *)

\* PutItemInput with the genres attribute filled from the album property.
PutItemInputSwapped(body) ==
  [f \in Fields |->
     IF f = "released" THEN AttrN(body[f])
     ELSE IF f = "genres" THEN AttrS(body["album"])
     ELSE AttrS(body[f])]

\* Item of the PutItemCommand, lines 59-67.
PutItemInput(body) ==
  [f \in Fields |->
     IF f = "released" THEN AttrN(body[f]) ELSE AttrS(body[f])]

\* Key of the GetItemCommand, lines 95-97.
GetItemKey(req) == AttrS(req.title)

\* `attr.S` of an attribute value.
ReadS(attr) == IF attr[1] = "S" THEN attr[2] ELSE Undefined

\* HandlerStart without the early return of lines 44-46.
HandlerStartNoShortCircuit(req) ==
  LET v == validateRequest(req) IN
  IF v.throws
    THEN [pc |-> "fault", response |-> NoResponse, puts |-> 0, gets |-> 0]
  ELSE IF req.method = "POST"
    THEN [pc |-> "put", response |-> NoResponse, puts |-> 1, gets |-> 0]
  ELSE [pc |-> "get", response |-> NoResponse, puts |-> 0, gets |-> 1]

\* HandlerStart with the method test of line 49 inverted.
HandlerStartFlipped(req) ==
  LET v == validateRequest(req) IN
  IF v.throws
    THEN [pc |-> "fault", response |-> NoResponse, puts |-> 0, gets |-> 0]
  ELSE IF v.error # NoError
    THEN [pc |-> "done",
          response |-> json([EmptyObj EXCEPT !["error"] = JStr(v.error.message)],
                            v.error.status),
          puts |-> 0, gets |-> 0]
  ELSE IF req.method # "POST"
    THEN [pc |-> "put", response |-> NoResponse, puts |-> 1, gets |-> 0]
  ELSE [pc |-> "get", response |-> NoResponse, puts |-> 0, gets |-> 1]

\* Lines 36-46 and the dispatch of lines 49 and 88: the step the task takes
\* up to its first store call.
HandlerStart(req) ==
  LET v == validateRequest(req) IN
  IF v.throws
    THEN [pc |-> "fault", response |-> NoResponse, puts |-> 0, gets |-> 0]
  ELSE IF v.error # NoError
    THEN [pc |-> "done",
          response |-> json([EmptyObj EXCEPT !["error"] = JStr(v.error.message)],
                            v.error.status),
          puts |-> 0, gets |-> 0]
  ELSE IF req.method = "POST"
    THEN [pc |-> "put", response |-> NoResponse, puts |-> 1, gets |-> 0]
  ELSE [pc |-> "get", response |-> NoResponse, puts |-> 0, gets |-> 1]

\* PostContinue that takes any acknowledgement for a success.
PostContinueAnyAck(body, rep) ==
  IF rep.kind = "ack"
    THEN json(body, 201)
    ELSE json([EmptyObj EXCEPT !["error"] = JStr("couldn't insert data")], 500)

\* PostContinue that echoes the five required fields only.
PostContinueFiveFields(body, rep) ==
  IF rep.kind = "ack" /\ rep.code = 200
    THEN json([k \in Keys |-> IF k \in Fields THEN body[k] ELSE Undefined], 201)
    ELSE json([EmptyObj EXCEPT !["error"] = JStr("couldn't insert data")], 500)

\* Lines 54-84 after the put has settled.
PostContinue(body, rep) ==
  IF rep.kind = "ack" /\ rep.code = 200
    THEN json(body, 201)
    ELSE json([EmptyObj EXCEPT !["error"] = JStr("couldn't insert data")], 500)

\* GetContinue whose final json call lacks the {status: 404} option.
GetContinueNoStatus(rep) ==
  IF rep.kind = "item" /\ rep.Item # NoItem
       /\ \A f \in Fields : rep.Item[f] # Missing
    THEN json([EmptyObj EXCEPT
                 !["title"] = ReadS(rep.Item["title"]),
                 !["artist"] = ReadS(rep.Item["artist"]),
                 !["album"] = ReadS(rep.Item["album"]),
                 !["released"] = ReadS(rep.Item["released"]),
                 !["genres"] = ReadS(rep.Item["genres"])],
              200)
    ELSE json([EmptyObj EXCEPT !["message"] = JStr("couldn't find the title")], 200)

\* GetContinue whose catch block answers a thrown lookup with a 500.
GetContinueDistinguish(rep) ==
  IF rep.kind = "throw"
    THEN json([EmptyObj EXCEPT !["error"] = JStr("lookup failed")], 500)
  ELSE IF rep.kind = "item" /\ rep.Item # NoItem
       /\ \A f \in Fields : rep.Item[f] # Missing
    THEN json([EmptyObj EXCEPT
                 !["title"] = ReadS(rep.Item["title"]),
                 !["artist"] = ReadS(rep.Item["artist"]),
                 !["album"] = ReadS(rep.Item["album"]),
                 !["released"] = ReadS(rep.Item["released"]),
                 !["genres"] = ReadS(rep.Item["genres"])],
              200)
    ELSE json([EmptyObj EXCEPT !["message"] = JStr("couldn't find the title")], 404)

\* Lines 92-124 after the get has settled.  Reading `.S` of an attribute the
\* item lacks throws inside the try block and ends in the 404 of line 119.
GetContinue(rep) ==
  IF rep.kind = "item" /\ rep.Item # NoItem
       /\ \A f \in Fields : rep.Item[f] # Missing
    THEN json([EmptyObj EXCEPT
                 !["title"] = ReadS(rep.Item["title"]),
                 !["artist"] = ReadS(rep.Item["artist"]),
                 !["album"] = ReadS(rep.Item["album"]),
                 !["released"] = ReadS(rep.Item["released"]),
                 !["genres"] = ReadS(rep.Item["genres"])],
              200)
    ELSE json([EmptyObj EXCEPT !["message"] = JStr("couldn't find the title")], 404)

-----------------------------------------------------------------------------
VARIABLES
  pc,        \* position of each task
  request,   \* the request each task handles
  reply,     \* what the store call of each task settled with
  response,  \* the response each task returned
  puts,      \* PutItemCommands the task has sent for its request
  gets,      \* GetItemCommands the task has sent for its request
  store,     \* the table "songs": title -> item
  lastPut,   \* history: body of the put the store applied last, per title
  everHeld   \* history: titles the table has ever held a record for

vars == <<pc, request, reply, response, puts, gets, store, lastPut, everHeld>>

Init ==
  /\ pc = [i \in Slots |-> "idle"]
  /\ request = [i \in Slots |-> NoRequest]
  /\ reply = [i \in Slots |-> NoReply]
  /\ response = [i \in Slots |-> NoResponse]
  /\ puts = [i \in Slots |-> 0]
  /\ gets = [i \in Slots |-> 0]
  /\ store = [EmptyStore EXCEPT !["B"] = KeyOnlyItem("B")]
  /\ lastPut = [t \in Titles |-> {}]
  /\ everHeld = {t \in Titles : store[t] # NoItem}

\* A request arrives and its task runs up to the first store call, or to its
\* end when validation fails.
Receive(i, req) ==
  /\ pc[i] \in {"idle", "done", "fault"}
  /\ LET h == HandlerStart(req) IN
       /\ pc' = [pc EXCEPT ![i] = h.pc]
       /\ response' = [response EXCEPT ![i] = h.response]
       /\ puts' = [puts EXCEPT ![i] = h.puts]
       /\ gets' = [gets EXCEPT ![i] = h.gets]
  /\ request' = [request EXCEPT ![i] = req]
  /\ reply' = [reply EXCEPT ![i] = NoReply]
  /\ UNCHANGED <<store, lastPut, everHeld>>

\* Title under which the store files an item; "" when the key attribute is
\* not a string the table knows.
KeyOf(attr) ==
  IF attr # Missing /\ attr[1] = "S" /\ attr[2] # Undefined /\ attr[2] # Null
       /\ attr[2][1] = "string" /\ attr[2][2] \in Titles
    THEN attr[2][2]
    ELSE ""

\* The store settles the put of task i: it replaces the item and
\* acknowledges with code 200, or refuses with another code, or the call
\* throws.
StorePut(i, outcome) ==
  /\ pc[i] = "put"
  /\ LET item == PutItemInput(validateRequest(request[i]).body)
         t == KeyOf(item["title"])
     IN
       IF outcome = 200 /\ t # ""
         THEN /\ store' = [store EXCEPT ![t] = [f \in Fields |-> StoreRepr(item[f])]]
              /\ lastPut' = [lastPut EXCEPT ![t] = request[i].body.pairs]
              /\ everHeld' = everHeld \cup {t}
              /\ reply' = [reply EXCEPT ![i] =
                             [NoReply EXCEPT !.kind = "ack", !.code = 200,
                                             !.existed = (store[t] # NoItem)]]
         ELSE /\ UNCHANGED <<store, lastPut, everHeld>>
              /\ reply' = [reply EXCEPT ![i] =
                             IF outcome \in AckCodes \ {200}
                               THEN [NoReply EXCEPT !.kind = "ack", !.code = outcome]
                               ELSE [NoReply EXCEPT !.kind = "throw"]]
  /\ pc' = [pc EXCEPT ![i] = "putSettled"]
  /\ UNCHANGED <<request, response, puts, gets>>

\* The store settles the get of task i: it returns the item filed under the
\* key (or none), or the call throws.
StoreGet(i, outcome) ==
  /\ pc[i] = "get"
  /\ LET t == KeyOf(GetItemKey(request[i])) IN
       reply' = [reply EXCEPT ![i] =
                   IF outcome = "ok" /\ t # ""
                     THEN [NoReply EXCEPT !.kind = "item", !.Item = store[t],
                                          !.prior = lastPut[t]]
                     ELSE [NoReply EXCEPT !.kind = "throw"]]
  /\ pc' = [pc EXCEPT ![i] = "getSettled"]
  /\ UNCHANGED <<request, response, puts, gets, store, lastPut, everHeld>>

\* The task resumes after `await client.send(new PutItemCommand(...))`.
ResumePost(i) ==
  /\ pc[i] = "putSettled"
  /\ response' = [response EXCEPT ![i] =
                    PostContinue(validateRequest(request[i]).body, reply[i])]
  /\ pc' = [pc EXCEPT ![i] = "done"]
  /\ UNCHANGED <<request, reply, puts, gets, store, lastPut, everHeld>>

\* The task resumes after `await client.send(new GetItemCommand(...))`.
ResumeGet(i) ==
  /\ pc[i] = "getSettled"
  /\ response' = [response EXCEPT ![i] = GetContinue(reply[i])]
  /\ pc' = [pc EXCEPT ![i] = "done"]
  /\ UNCHANGED <<request, reply, puts, gets, store, lastPut, everHeld>>

Next ==
  \/ \E i \in Slots, req \in Requests : Receive(i, req)
  \/ \E i \in Slots, outcome \in AckCodes \cup {0} : StorePut(i, outcome)
  \/ \E i \in Slots, outcome \in {"ok", "throw"} : StoreGet(i, outcome)
  \/ \E i \in Slots : ResumePost(i)
  \/ \E i \in Slots : ResumeGet(i)

Spec == Init /\ [][Next]_vars

-----------------------------------------------------------------------------
(* Vocabulary of the properties *)

Done(i) == pc[i] = "done"

IsGet(i) == request[i].method = "GET" /\ request[i].title # Null

BodyKeys(i) == {p[1] : p \in request[i].body.pairs}

IsPost(i) ==
  request[i].method = "POST" /\ request[i].body.ok /\ Fields \subseteq BodyKeys(i)

FailsValidation(req) ==
  \/ req.method \notin {"GET", "POST"}
  \/ req.method = "GET" /\ req.title = Null
  \/ req.method = "POST" /\ req.body.ok
       /\ ~(Fields \subseteq {p[1] : p \in req.body.pairs})

Acked(i) == reply[i].kind = "ack" /\ reply[i].code = 200

ValueIn(pairs, k) == (CHOOSE p \in pairs : p[1] = k)[2]

NotFoundResponse ==
  [sent |-> TRUE, status |-> 404,
   body |-> {<<"message", JStr("couldn't find the title")>>}]

InsertFailedResponse ==
  [sent |-> TRUE, status |-> 500,
   body |-> {<<"error", JStr("couldn't insert data")>>}]

\* The five fields of a submitted body as a reader expects them back:
\* released as the decimal numeral of the submitted number.
RecordOf(pairs) ==
  {p \in pairs : p[1] \in Fields \ {"released"}}
    \cup {<<"released", JStr(Numeral(ValueIn(pairs, "released")[2]))>>}

\* The item the table should hold for a submitted body.
ItemOf(pairs) ==
  [f \in Fields |->
     IF f = "released"
       THEN <<"N", JStr(Numeral(ValueIn(pairs, "released")[2]))>>
       ELSE <<"S", ValueIn(pairs, f)>>]

-----------------------------------------------------------------------------
(* Properties *)

\* C1: a GET whose lookup returns the record that an acknowledged POST
\* stored for the title answers 200 with the five fields of that POST,
\* released being the store's numeral of the stored number.
C1_GetReturnsStored ==
  \A i \in Slots :
    (Done(i) /\ IsGet(i) /\ reply[i].kind = "item" /\ reply[i].prior # {})
      => /\ response[i].status = 200
         /\ response[i].body = RecordOf(reply[i].prior)

\* C2: a POST with all five fields whose put the store acknowledges with
\* code 200 answers 201 with a body equal to the submitted body.
C2_PostEchoesBody ==
  \A i \in Slots :
    (Done(i) /\ IsPost(i) /\ Acked(i))
      => /\ response[i].sent
         /\ response[i].status = 201
         /\ response[i].body = request[i].body.pairs

C2_Witness ==
  \E i \in Slots :
    /\ Done(i) /\ IsPost(i) /\ Acked(i)
    /\ request[i].body.pairs = Song2
    /\ response[i].status = 201

\* C3: a request that fails validation is answered with the validator's
\* status and message, never with 500, and has sent no store command; the
\* step that handles it leaves the table as it was.
C3_ValidationShortCircuits ==
  /\ [](\A i \in Slots :
          (pc[i] # "idle" /\ FailsValidation(request[i]))
            => /\ Done(i)
               /\ response[i].sent
               /\ response[i].status = validateRequest(request[i]).error.status
               /\ response[i].status \in {400, 405}
               /\ response[i].body =
                    {<<"error", JStr(validateRequest(request[i]).error.message)>>}
               /\ puts[i] = 0 /\ gets[i] = 0)
  /\ [][\A i \in Slots :
          (request'[i] # request[i] /\ FailsValidation(request'[i]))
            => store' = store]_vars

C3_Witness ==
  /\ \E i \in Slots :
       /\ Done(i) /\ request[i].method = "POST" /\ FailsValidation(request[i])
       /\ response[i].status = 400
  /\ \E i \in Slots :
       /\ Done(i) /\ request[i].method = "DELETE"
       /\ response[i].status = 405
  /\ store["A"] # NoItem

\* C4: a validated POST whose put is acknowledged with a code other than
\* 200, or throws, answers 500 with exactly {error: "couldn't insert data"}.
C4_PutFailureIs500 ==
  \A i \in Slots :
    (Done(i) /\ IsPost(i) /\ ~Acked(i))
      => response[i] = InsertFailedResponse

C4_Witness ==
  /\ \E i \in Slots :
       /\ Done(i) /\ IsPost(i)
       /\ reply[i].kind = "ack" /\ reply[i].code # 200
       /\ response[i].status = 500
  /\ \E i \in Slots :
       Done(i) /\ IsPost(i) /\ reply[i].kind = "throw" /\ response[i].status = 500

\* C5: a validated GET for a title the table has never held answers 404
\* with exactly {message: "couldn't find the title"}.
C5_NeverStoredIs404 ==
  \A i \in Slots :
    (Done(i) /\ IsGet(i) /\ request[i].title[2] \notin everHeld)
      => response[i] = NotFoundResponse

C5_Witness ==
  \E i \in Slots :
    /\ Done(i) /\ IsGet(i) /\ request[i].title[2] \notin everHeld
    /\ reply[i].kind = "item" /\ reply[i].Item = NoItem
    /\ response[i].status = 404

\* C6: two GETs of the same request, one whose lookup threw and one whose
\* lookup found no record, receive the same response.
C6_ThrowAndAbsentAlike ==
  \A i, j \in Slots :
    (/\ Done(i) /\ IsGet(i) /\ Done(j) /\ request[j] = request[i]
     /\ reply[i].kind = "throw"
     /\ reply[j].kind = "item" /\ reply[j].Item = NoItem)
      => response[i] = response[j]

C6_Witness ==
  \E i, j \in Slots :
    /\ Done(i) /\ IsGet(i) /\ Done(j) /\ request[j] = request[i]
    /\ reply[i].kind = "throw"
    /\ reply[j].kind = "item" /\ reply[j].Item = NoItem
    /\ response[i].status = 404

\* C7: every request whose task has ended has received one well-formed
\* response, with status 200, 201, 404, 500 or the validator's status,
\* whether the validator and the store call returned or threw.
C7_EveryRequestAnswered ==
  \A i \in Slots :
    pc[i] \in {"done", "fault"}
      => /\ response[i].sent
         /\ response[i].status \in {200, 201, 404, 500, 400, 405}

\* C8: once the store has applied an acknowledged POST for a title, the
\* table holds for that title exactly the five fields of the POST applied
\* last, and every acknowledged POST, also one for a title that already
\* had a record, answers 201.
C8_LastPutReplaces ==
  /\ \A t \in Titles : lastPut[t] # {} => store[t] = ItemOf(lastPut[t])
  /\ \A i \in Slots :
       (Done(i) /\ IsPost(i) /\ Acked(i)) => response[i].status = 201

C8_Witness ==
  \E i \in Slots :
    /\ Done(i) /\ IsPost(i) /\ Acked(i) /\ reply[i].existed
    /\ response[i].status = 201
    /\ lastPut["A"] = Song2
    /\ store["A"] = ItemOf(Song2)

\* C9: under any interleaving, two acknowledged POSTs of one title both
\* answer 201 with their own body, the table holds the body of the put
\* applied last, and a GET answers either 404 or 200 with the complete
\* record of one of the POSTs.
C9_Interleavings ==
  /\ \A i \in Slots :
       (Done(i) /\ IsPost(i) /\ Acked(i))
         => response[i].status = 201 /\ response[i].body = request[i].body.pairs
  /\ \A t \in Titles : lastPut[t] # {} => store[t] = ItemOf(lastPut[t])
  /\ \A i \in Slots :
       (Done(i) /\ IsGet(i))
         => \/ response[i] = NotFoundResponse
            \/ /\ response[i].status = 200
               /\ \E b \in FullBodies : response[i].body = RecordOf(b)

\* C10: a request sends at most one store command (a validated POST one put
\* and no get, a validated GET one get and no put), the table changes only
\* in the step that settles the put of a POST with code 200, and a 201 is
\* only sent for a POST whose put was acknowledged with code 200.
C10_OneStoreOperation ==
  /\ [](\A i \in Slots :
          /\ puts[i] + gets[i] <= 1
          /\ (IsPost(i) /\ pc[i] # "idle") => (puts[i] = 1 /\ gets[i] = 0)
          /\ (IsGet(i) /\ pc[i] # "idle") => (gets[i] = 1 /\ puts[i] = 0)
          /\ (response[i].sent /\ response[i].status = 201)
               => (IsPost(i) /\ Acked(i)))
  /\ [][store' # store
          => \E i \in Slots :
               /\ IsPost(i) /\ pc[i] = "put" /\ pc'[i] = "putSettled"
               /\ reply'[i].kind = "ack" /\ reply'[i].code = 200
               /\ request'[i] = request[i]]_vars

C10_Witness ==
  /\ \E i \in Slots :
       Done(i) /\ IsGet(i) /\ gets[i] = 1 /\ response[i].status = 200
  /\ \E i \in Slots :
       Done(i) /\ IsPost(i) /\ puts[i] = 1 /\ response[i].status = 500

TypeOK ==
  /\ pc \in [Slots -> {"idle", "put", "get", "putSettled", "getSettled", "done", "fault"}]
  /\ \A i \in Slots : request[i] \in Requests \cup {NoRequest}
  /\ puts \in [Slots -> 0..1]
  /\ gets \in [Slots -> 0..1]
====
